---- MODULE Spec2Model ----
(***************************************************************************)
(* A model of the Redis agent check (redis/checks/redisdb.py).             *)
(*                                                                         *)
(* One Redis check object owns two dictionaries, `connections` and         *)
(* `previous_total_commands`.  A scheduler calls check(instance); the      *)
(* call runs _check_db, which fetches one INFO snapshot and submits        *)
(* gauges and rates to the metric sink as it goes.  Every invocation is    *)
(* modelled as a sequence of steps of one thread, so that sequential and   *)
(* interleaved schedules are both behaviours of the same actions.          *)
(*                                                                         *)
(* Conventions.                                                            *)
(*  - A metric value is a tagged record: [int |-> n] for an integer,       *)
(*    [str |-> s] for a string, [hundredths |-> n] for the float           *)
(*    round(x, 2) (n = 100 * the rounded value), [sym |-> ..] for the      *)
(*    measured latency.                                                    *)
(*  - A Python string that the code splits is a sequence of tokens; the    *)
(*    tokens "," and "=" are the separators the code splits on.            *)
(*  - A raised exception ends the invocation: pc = "raised", exc = its     *)
(*    type and the place that raised it.                                   *)
(***************************************************************************)
EXTENDS Integers, Sequences, FiniteSets, TLC

VARIABLES
    connections,              \* self.connections: (host, port, db) -> handle
    previous_total_commands,  \* self.previous_total_commands: tuple(tags) -> int
    server_commands,          \* the server's cumulative command counter
    constructed,              \* number of redis.Redis(...) objects constructed
    pc,                       \* per thread: position in check/_check_db
    inst,                     \* per thread: the arguments of _check_db
    conn,                     \* per thread: local `conn`
    info,                     \* per thread: local `info`
    emitted,                  \* per thread: what this invocation gave the sink
    log,                      \* per thread: what this invocation logged
    exc,                      \* per thread: the exception that ended it
    idx,                      \* per thread: position in list_lengths
    count,                    \* per thread: local `count` (line 174)
    llen_seen,                \* per thread: outcome of each llen query made
    prev_at_start,            \* per thread: previous_total_commands at entry
    last_failed,              \* per thread: the thread's previous call, for the
                              \*   same tags, failed in its info query
    completed_base,           \* tags -> total_commands of last completed call
    touched,                  \* tags -> connection identities that used the entry
    ninv,                     \* invocations started
    nbursts                   \* bursts of client traffic seen by the server

vars == <<connections, previous_total_commands, server_commands, constructed,
          pc, inst, conn, info, emitted, log, exc, idx, count, llen_seen,
          prev_at_start, last_failed, completed_base, touched, ninv, nbursts>>

(***************************************************************************)
(* Bounds of the model.                                                    *)
(***************************************************************************)
MaxInvocations == 3
MaxBursts == 1

Threads == {1, 2}

\* Commands other clients run between two polls; with the poll's own info
\* query the counter then advances by 50, the spec's worked example.
Burst == 49

(***************************************************************************)
(* Class attributes.                                                       *)
(***************************************************************************)
\* db_key_pattern = re.compile(r'^db\d+'): the field names it matches.
db_key_pattern(key) == key \in {"db0", "db1", "db2"}

subkeys == <<"keys", "expires">>

GAUGE_KEYS ==
    [k \in {"aof_last_rewrite_time_sec", "aof_rewrite_in_progress",
            "aof_current_size", "aof_buffer_length", "connected_clients",
            "connected_slaves", "rejected_connections", "blocked_clients",
            "client_biggest_input_buf", "client_longest_output_list",
            "evicted_keys", "expired_keys", "keyspace_hits", "keyspace_misses",
            "latest_fork_usec", "pubsub_channels", "pubsub_patterns",
            "rdb_bgsave_in_progress", "rdb_changes_since_last_save",
            "rdb_last_bgsave_time_sec", "mem_fragmentation_ratio",
            "used_memory", "used_memory_lua", "used_memory_peak",
            "used_memory_rss", "master_last_io_seconds_ago",
            "master_sync_in_progress", "master_sync_left_bytes"} |->
       CASE k = "aof_last_rewrite_time_sec"   -> "redis.aof.last_rewrite_time"
         [] k = "aof_rewrite_in_progress"     -> "redis.aof.rewrite"
         [] k = "aof_current_size"            -> "redis.aof.size"
         [] k = "aof_buffer_length"           -> "redis.aof.buffer_length"
         [] k = "connected_clients"           -> "redis.net.clients"
         [] k = "connected_slaves"            -> "redis.net.slaves"
         [] k = "rejected_connections"        -> "redis.net.rejected"
         [] k = "blocked_clients"             -> "redis.clients.blocked"
         [] k = "client_biggest_input_buf"    -> "redis.clients.biggest_input_buf"
         [] k = "client_longest_output_list"  -> "redis.clients.longest_output_list"
         [] k = "evicted_keys"                -> "redis.keys.evicted"
         [] k = "expired_keys"                -> "redis.keys.expired"
         [] k = "keyspace_hits"               -> "redis.stats.keyspace_hits"
         [] k = "keyspace_misses"             -> "redis.stats.keyspace_misses"
         [] k = "latest_fork_usec"            -> "redis.perf.latest_fork_usec"
         [] k = "pubsub_channels"             -> "redis.pubsub.channels"
         [] k = "pubsub_patterns"             -> "redis.pubsub.patterns"
         [] k = "rdb_bgsave_in_progress"      -> "redis.rdb.bgsave"
         [] k = "rdb_changes_since_last_save" -> "redis.rdb.changes_since_last"
         [] k = "rdb_last_bgsave_time_sec"    -> "redis.rdb.last_bgsave_time"
         [] k = "mem_fragmentation_ratio"     -> "redis.mem.fragmentation_ratio"
         [] k = "used_memory"                 -> "redis.mem.used"
         [] k = "used_memory_lua"             -> "redis.mem.lua"
         [] k = "used_memory_peak"            -> "redis.mem.peak"
         [] k = "used_memory_rss"             -> "redis.mem.rss"
         [] k = "master_last_io_seconds_ago"  -> "redis.replication.last_io_seconds_ago"
         [] k = "master_sync_in_progress"     -> "redis.replication.sync"
         [] k = "master_sync_left_bytes"      -> "redis.replication.sync_left_bytes"]

RATE_KEYS ==
    [k \in {"used_cpu_sys", "used_cpu_sys_children", "used_cpu_user",
            "used_cpu_user_children"} |->
       CASE k = "used_cpu_sys"           -> "redis.cpu.sys"
         [] k = "used_cpu_sys_children"  -> "redis.cpu.sys_children"
         [] k = "used_cpu_user"          -> "redis.cpu.user"
         [] k = "used_cpu_user_children" -> "redis.cpu.user_children"]

\* RATIO_KEYS = {'hit_ratio': ['keyspace_hits', 'keyspace_misses']}
RATIO_KEYS == <<[name |-> "hit_ratio",
                 values |-> <<"keyspace_hits", "keyspace_misses">>]>>

\* The order in which Python iterates the two dictionaries above is fixed per
\* build but not by the language; the model iterates the snapshot's fields
\* that the maps contain in this order.
MappedOrder == <<"used_memory", "keyspace_hits", "keyspace_misses",
                 "connected_clients", "used_cpu_sys", "used_cpu_user">>

(***************************************************************************)
(* Values, metrics and exceptions.                                         *)
(***************************************************************************)
IntVal(n) == [int |-> n]
StrVal(s) == [str |-> s]
Hundredths(n) == [hundredths |-> n]
LatencyVal == [sym |-> "latency_ms"]

Metric(kind, name, value, tags) ==
    [kind |-> kind, name |-> name, value |-> value, tags |-> tags]

NoExc == [type |-> "none", at |-> "none"]
Exc(type, at) == [type |-> type, at |-> at]

EmptyMap == [k \in {} |-> 0]

\* Names(es, n): the metrics of the sequence es whose name is n.
Named(es, n) == SelectSeq(es, LAMBDA m : m.name = n)

(***************************************************************************)
(* Tags (lines 115-117, 128, 172).                                         *)
(***************************************************************************)
\* Python's sorted() orders strings by code point; every tag the model can
\* build is listed here in that order.
TagOrder == <<"env:a", "redis_db:db0", "redis_db:db1", "redis_host:h1",
              "redis_host:h2", "redis_port:6379", "redis_port:6380">>

sorted(S) == SelectSeq(TagOrder, LAMBDA x : x \in S)

ToSet(s) == {s[i] : i \in DOMAIN s}

\* tags = sorted(set(custom_tags or []) | {"redis_host:%s", "redis_port:%s"})
check_db_tags(host, port, custom_tags) ==
    sorted(ToSet(custom_tags)
             \cup {"redis_host:" \o host, "redis_port:" \o ToString(port)})

\* tuple_tags = tuple(tags): the same items in the same order, hashable.
tuple_tags(tags) == tags

\* db_tags = list(tags) + ["redis_db:" + key]
db_tags(tags, key) == tags \o <<"redis_db:" \o key>>

\* A variant of _get_conn that does not look in the cache.
get_conn_uncached(cache, host, port, password, db, outcome, id) ==
    IF outcome = "ok"
    THEN LET h == [id |-> id, host |-> host, port |-> port, db |-> db,
                   auth |-> password # "None" /\ password # ""] IN
         [cache |-> (<<host, port, db>> :> h) @@ cache, handle |-> h,
          exc |-> [type |-> "none", at |-> "none"], log |-> <<>>, built |-> 1]
    ELSE [cache |-> cache, handle |-> [id |-> 0],
          exc |-> [type |-> outcome, at |-> "_get_conn"], log |-> <<>>,
          built |-> 0]

(***************************************************************************)
(* _get_conn (lines 98-111).                                               *)
(*                                                                         *)
(* outcome is what redis.Redis(...) does if it is called: "ok", or the     *)
(* exception it raises.  id names the object it would build.  The result   *)
(* is the cache after the call, the handle returned (or none), the         *)
(* exception that propagates, what was logged and how many objects were    *)
(* built.                                                                  *)
(***************************************************************************)
ConnKey(host, port, db) == <<host, port, db>>

Handle(id, host, port, db, auth) ==
    [id |-> id, host |-> host, port |-> port, db |-> db, auth |-> auth]

NoHandle == [id |-> 0]

\* password is not None and len(password) > 0; None is the string "None".
HasPassword(password) == password # "None" /\ password # ""

get_conn(cache, host, port, password, db, outcome, id) ==
    LET key == ConnKey(host, port, db) IN
    IF key \in DOMAIN cache
    THEN [cache |-> cache, handle |-> cache[key], exc |-> NoExc,
          log |-> <<>>, built |-> 0]
    ELSE IF outcome = "ok"
         THEN LET h == Handle(id, host, port, db, HasPassword(password)) IN
              [cache |-> (key :> h) @@ cache, handle |-> h, exc |-> NoExc,
               log |-> <<>>, built |-> 1]
         ELSE [cache |-> cache, handle |-> NoHandle,
               exc |-> Exc(outcome, "_get_conn"),
               log |-> IF HasPassword(password) /\ outcome = "TypeError"
                       THEN <<"exception: You need a redis library that supports authenticated connections">>
                       ELSE <<>>,
               built |-> 0]

(***************************************************************************)
(* _parse_dict_string (lines 83-96).                                       *)
(***************************************************************************)
\* int(v) succeeds on these tokens.
IntTokens == {"0", "1", "2", "3", "10"}

IntOf(tok) ==
    CASE tok = "0" -> 0 [] tok = "1" -> 1 [] tok = "2" -> 2
      [] tok = "3" -> 3 [] tok = "10" -> 10

\* Positions of the separator sep in the string s.
Seps(s, sep) == {i \in DOMAIN s : s[i] = sep}

\* s.split(sep): the pieces between the separators, in order.
RECURSIVE split(_, _)
split(s, sep) ==
    IF Seps(s, sep) = {}
    THEN <<s>>
    ELSE LET i == CHOOSE j \in Seps(s, sep) : \A k \in Seps(s, sep) : j <= k IN
         <<SubSeq(s, 1, i - 1)>> \o split(SubSeq(s, i + 1, Len(s)), sep)

\* item.rsplit(sep, 1): split once, at the last separator.
rsplit1(s, sep) ==
    IF Seps(s, sep) = {}
    THEN <<s>>
    ELSE LET i == CHOOSE j \in Seps(s, sep) : \A k \in Seps(s, sep) : j >= k IN
         <<SubSeq(s, 1, i - 1), SubSeq(s, i + 1, Len(s))>>

\* The loop of lines 86-93 over the items left; the unpacking `k, v = ...`
\* raises ValueError unless rsplit gave two pieces, and line 94 catches it.
RECURSIVE parse_items(_, _, _)
parse_items(items, key, default) ==
    IF items = <<>>
    THEN [val |-> default, logged |-> FALSE]
    ELSE LET kv == rsplit1(Head(items), "=") IN
         IF Len(kv) # 2
         THEN [val |-> default, logged |-> TRUE]
         ELSE IF kv[1] = <<key>>
              THEN IF Len(kv[2]) = 1 /\ kv[2][1] \in IntTokens
                   THEN [val |-> IntVal(IntOf(kv[2][1])), logged |-> FALSE]
                   ELSE [val |-> StrVal(kv[2]), logged |-> FALSE]
              ELSE parse_items(Tail(items), key, default)

parse_dict_string(string, key, default) ==
    parse_items(split(string, ","), key, default)

(***************************************************************************)
(* Field extraction (lines 126-159).  Each operator takes the metrics and  *)
(* the log so far and returns them extended, with the exception that       *)
(* stopped it, if one did.                                                 *)
(***************************************************************************)
\* round(100 * (float(a) / float(b)), 2) for a >= 0, b > 0, in hundredths;
\* Python 2 rounds a half away from zero.
round2(a, b) == (20000 * a + b) \div (2 * b)

\* A per-database entry is a mapping, [form |-> "dict", d |-> ..], or the
\* flat string of old client libraries, [form |-> "str", s |-> tokens].
DictEntry(d) == [form |-> "dict", d |-> d]
StrEntry(s) == [form |-> "str", s |-> s]

\* Lines 133-137: info[key].get(subkey, -1), or, when info[key] has no
\* attribute `get` (a string), _parse_dict_string(info[key], subkey, -1).
subkey_value(entry, subkey) ==
    IF entry.form = "dict"
    THEN [val |-> IF subkey \in DOMAIN entry.d
                  THEN IntVal(entry.d[subkey]) ELSE IntVal(-1),
          logged |-> FALSE]
    ELSE parse_dict_string(entry.s, subkey, IntVal(-1))

\* Lines 129-139 for one database: one gauge per subkey.
subkey_gauges(entry, tags) ==
    [i \in DOMAIN subkeys |->
        Metric("gauge", "redis." \o subkeys[i],
               subkey_value(entry, subkeys[i]).val, tags)]

subkey_logs(entry) ==
    SelectSeq([i \in DOMAIN subkeys |->
                  IF subkey_value(entry, subkeys[i]).logged
                  THEN "exception: Cannot parse dictionary string"
                  ELSE "none"],
              LAMBDA l : l # "none")

\* Lines 141-146: info[key]['expires'] and info[key]['keys'] index the entry
\* itself.  Indexing a string with a string raises TypeError, a missing
\* subkey raises KeyError, keys = 0 raises ZeroDivisionError; the handler
\* catches AttributeError only, which none of these is.
expires_ratio(entry, tags) ==
    IF entry.form = "str"
    THEN [emit |-> <<>>, exc |-> Exc("TypeError", "expires_ratio")]
    ELSE IF ~({"expires", "keys"} \subseteq DOMAIN entry.d)
    THEN [emit |-> <<>>, exc |-> Exc("KeyError", "expires_ratio")]
    ELSE IF entry.d["keys"] = 0
    THEN [emit |-> <<>>, exc |-> Exc("ZeroDivisionError", "expires_ratio")]
    ELSE [emit |-> <<Metric("gauge", "redis.expires_ratio",
                            Hundredths(round2(entry.d["expires"], entry.d["keys"])),
                            tags)>>,
          exc |-> NoExc]

\* Lines 126-146: the loop over the snapshot's fields that match
\* db_key_pattern, in the order info.keys() gives them.
RECURSIVE db_stats(_, _, _, _)
db_stats(dbs, tags, em, lg) ==
    IF dbs = <<>>
    THEN [emitted |-> em, log |-> lg, exc |-> NoExc]
    ELSE LET key == Head(dbs).name
             entry == Head(dbs).entry
             dt == db_tags(tags, key)
             r == expires_ratio(entry, dt)
             em2 == em \o subkey_gauges(entry, dt) \o r.emit
             lg2 == lg \o subkey_logs(entry)
         IN IF ~db_key_pattern(key)
            THEN db_stats(Tail(dbs), tags, em, lg)
            ELSE IF r.exc # NoExc
            THEN [emitted |-> em2, log |-> lg2, exc |-> r.exc]
            ELSE db_stats(Tail(dbs), tags, em2, lg2)

\* Lines 149-150: the gauge map, then the rate map, for the fields present.
mapped_stats(scalars, tags) ==
    LET present(M) == SelectSeq(MappedOrder,
                                LAMBDA k : k \in DOMAIN M /\ k \in DOMAIN scalars)
        gs == present(GAUGE_KEYS)
        rs == present(RATE_KEYS)
    IN [i \in DOMAIN gs |->
           Metric("gauge", GAUGE_KEYS[gs[i]], IntVal(scalars[gs[i]]), tags)]
       \o [i \in DOMAIN rs |->
           Metric("rate", RATE_KEYS[rs[i]], IntVal(scalars[rs[i]]), tags)]

\* Lines 156-159 for one ratio, both fields present.
ratio_gauge(name, val1, val2, tags) ==
    IF 0 \notin {val1, val2}
    THEN <<Metric("gauge", "redis." \o name, Hundredths(round2(val1, val2)), tags)>>
    ELSE <<>>

\* Lines 153-159: info[values[0]] raises KeyError when the field is absent.
RECURSIVE ratios(_, _, _)
ratios(rks, scalars, tags) ==
    IF rks = <<>>
    THEN [emit |-> <<>>, exc |-> NoExc]
    ELSE LET rk == Head(rks) IN
         IF ~(ToSet(rk.values) \subseteq DOMAIN scalars)
         THEN [emit |-> <<>>, exc |-> Exc("KeyError", "ratios")]
         ELSE LET rest == ratios(Tail(rks), scalars, tags) IN
              [emit |-> ratio_gauge(rk.name, scalars[rk.values[1]],
                                    scalars[rk.values[2]], tags) \o rest.emit,
               exc |-> rest.exc]

\* Lines 126-159 in order; the first exception ends the extraction.
extract(snapshot, tags, em, lg) ==
    LET d == db_stats(snapshot.dbs, tags, em, lg)
        m == mapped_stats(snapshot.scalars, tags)
        r == ratios(RATIO_KEYS, snapshot.scalars, tags)
    IN IF d.exc # NoExc
       THEN d
       ELSE [emitted |-> d.emitted \o m \o r.emit, log |-> d.log, exc |-> r.exc]

(***************************************************************************)
(* The command delta (lines 171-176).                                      *)
(***************************************************************************)
\* Line 171.
total_commands(scalars) == scalars["total_commands_processed"] - 1

\* Lines 173-174: the delta against the stored value, if there is one.
delta_count(prev, key, total) ==
    IF key \in DOMAIN prev
    THEN [has |-> TRUE, v |-> total - prev[key]]
    ELSE [has |-> FALSE, v |-> 0]

\* A variant of line 176 that keeps a value already stored.
delta_store_once(prev, key, total) ==
    IF key \in DOMAIN prev THEN prev ELSE (key :> total) @@ prev

\* Line 176.
delta_store(prev, key, total) == (key :> total) @@ prev

(***************************************************************************)
(* Inputs: instance configurations, INFO snapshots, collaborator outcomes. *)
(***************************************************************************)
Instance(host, port, db, password, list_lengths, custom_tags) ==
    [host |-> host, port |-> port, db |-> db, password |-> password,
     list_lengths |-> list_lengths, custom_tags |-> custom_tags]

\* What redis.Redis(...), conn.info() and conn.llen() can do.
ConstructOutcomes == {"ok", "TypeError", "ConnectionError"}
InfoOutcomes == {"ok", "ConnectionError"}
LlenOutcomes == {"ok", "ResponseError", "ConnectionError"}
LlenLengths == {7}

\* A snapshot: the scalar fields other than total_commands_processed, whether
\* that field is present (its value is the server's counter), and the
\* per-database fields in the order info.keys() yields them.
Snapshot(scalars, has_total, dbs) ==
    [scalars |-> scalars, has_total |-> has_total, dbs |-> dbs]

Db(name, entry) == [name |-> name, entry |-> entry]

Stats(hits, misses) ==
    ("keyspace_hits" :> hits) @@ ("keyspace_misses" :> misses)
      @@ ("used_memory" :> 1048576) @@ ("used_cpu_sys" :> 4)

\* The spec's end-to-end scenario: hits 80, misses 20, db0 = {keys 10, expires 2}.
GoodDb == Db("db0", DictEntry([keys |-> 10, expires |-> 2]))
GoodSnapshot == Snapshot(Stats(80, 20), TRUE, <<GoodDb>>)

LegacyStrings ==
    { <<"keys", "=", "3", ",", "expires", "=", "0">>,   \* "keys=3,expires=0"
      <<"junk">>,                                       \* "junk"
      <<"keys", "=", "3">>,                             \* "keys=3"
      <<"keys", "=", "abc", ",", "junk">> }             \* "keys=abc,junk"

DbEntries ==
    { DictEntry([keys |-> 3, expires |-> 1]),
      DictEntry([keys |-> 0, expires |-> 0]),
      DictEntry([keys |-> 0, expires |-> 2]),
      DictEntry([keys |-> 3]) }
    \cup { StrEntry(s) : s \in LegacyStrings }

\* Snapshots that vary one part of the good one at a time.
ExtractSnapshots ==
    { GoodSnapshot,
      Snapshot(Stats(80, 20), FALSE, <<GoodDb>>),
      Snapshot(Stats(80, 20), TRUE, <<>>),
      Snapshot(("used_memory" :> 1048576), TRUE, <<GoodDb>>) }
    \cup { Snapshot(Stats(h, m), TRUE, <<GoodDb>>) :
              h \in {0, 1, 2}, m \in {0, 3} }
    \cup { Snapshot(Stats(80, 20), TRUE, <<Db("db0", e)>>) : e \in DbEntries }
    \cup { Snapshot(Stats(80, 20), TRUE, <<GoodDb, Db("db1", e)>>) :
              e \in {DictEntry([keys |-> 0, expires |-> 0]),
                     StrEntry(<<"keys", "=", "3", ",", "expires", "=", "0">>)} }

ExtractInstances ==
    { Instance("h1", 6379, 0, "None", l, <<>>) : l \in {<<>>, <<"q1", "q2">>} }

\* Polling: several instance configurations against one server.
PollSnapshots == { GoodSnapshot, Snapshot(Stats(80, 20), FALSE, <<GoodDb>>) }

PollInstances ==
    { Instance("h1", 6379, db, "None", <<"q1">>, tg) :
         db \in {0, 1}, tg \in {<<>>, <<"env:a">>} }

\* Connecting: configurations that differ in database and password.
ConnSnapshots == { GoodSnapshot }

ConnInstances ==
    { Instance("h1", 6379, db, pw, <<"q1">>, <<>>) :
         db \in {0, 1}, pw \in {"None", "", "pw"} }

\* Two threads polling the same server.
RaceSnapshots == { GoodSnapshot }

RaceInstances ==
    { Instance("h1", 6379, 0, "None", <<"q1">>, <<>>) }

(***************************************************************************)
(* State.                                                                  *)
(***************************************************************************)
NoInstance == Instance("", 0, 0, "None", <<>>, <<>>)
NoInfo == Snapshot(EmptyMap, FALSE, <<>>)
NoCount == [has |-> FALSE, v |-> 0]

Tags(t) == check_db_tags(inst[t].host, inst[t].port, inst[t].custom_tags)
Key(t) == tuple_tags(Tags(t))
Ident(t) == ConnKey(inst[t].host, inst[t].port, inst[t].db)

\* __init__ (lines 72-81).
Init ==
    /\ connections = EmptyMap
    /\ previous_total_commands = EmptyMap
    /\ server_commands = 0
    /\ constructed = 0
    /\ pc = [t \in Threads |-> "idle"]
    /\ inst = [t \in Threads |-> NoInstance]
    /\ conn = [t \in Threads |-> NoHandle]
    /\ info = [t \in Threads |-> NoInfo]
    /\ emitted = [t \in Threads |-> <<>>]
    /\ log = [t \in Threads |-> <<>>]
    /\ exc = [t \in Threads |-> NoExc]
    /\ idx = [t \in Threads |-> 1]
    /\ count = [t \in Threads |-> NoCount]
    /\ llen_seen = [t \in Threads |-> <<>>]
    /\ prev_at_start = [t \in Threads |-> EmptyMap]
    /\ last_failed = [t \in Threads |-> FALSE]
    /\ completed_base = EmptyMap
    /\ touched = EmptyMap
    /\ ninv = 0
    /\ nbursts = 0

shared == <<connections, previous_total_commands, server_commands, constructed,
            completed_base, touched, nbursts>>

\* An exception propagates out of check: the invocation is over.
Raise(t, e) ==
    /\ pc' = [pc EXCEPT ![t] = "raised"]
    /\ exc' = [exc EXCEPT ![t] = e]

Touch(t) ==
    (Key(t) :> ((IF Key(t) \in DOMAIN touched THEN touched[Key(t)] ELSE {})
                  \cup {Ident(t)})) @@ touched

(***************************************************************************)
(* Actions.                                                                *)
(***************************************************************************)
\* check (lines 178-187) up to and including the call of _get_conn (line 114).
Check(t, Insts) ==
    /\ pc[t] \in {"idle", "done", "raised"}
    /\ ninv < MaxInvocations
    /\ \E i \in Insts, outcome \in ConstructOutcomes :
         LET r == get_conn(connections, i.host, i.port, i.password, i.db,
                           outcome, constructed + 1) IN
         /\ inst' = [inst EXCEPT ![t] = i]
         /\ connections' = r.cache
         /\ constructed' = constructed + r.built
         /\ conn' = [conn EXCEPT ![t] = r.handle]
         /\ log' = [log EXCEPT ![t] = r.log]
         /\ pc' = [pc EXCEPT ![t] = IF r.exc = NoExc THEN "info" ELSE "raised"]
         /\ exc' = [exc EXCEPT ![t] = r.exc]
    /\ ninv' = ninv + 1
    /\ info' = [info EXCEPT ![t] = NoInfo]
    /\ emitted' = [emitted EXCEPT ![t] = <<>>]
    /\ idx' = [idx EXCEPT ![t] = 1]
    /\ count' = [count EXCEPT ![t] = NoCount]
    /\ llen_seen' = [llen_seen EXCEPT ![t] = <<>>]
    /\ prev_at_start' = [prev_at_start EXCEPT ![t] = previous_total_commands]
    /\ last_failed' = [last_failed EXCEPT ![t] =
          /\ pc[t] = "raised"
          /\ exc[t].at = "info"
          /\ Key(t) = tuple_tags(check_db_tags(inst'[t].host, inst'[t].port,
                                               inst'[t].custom_tags))]
    /\ UNCHANGED <<previous_total_commands, server_commands, completed_base,
                   touched, nbursts>>

\* The gauge of line 123.
latency_gauge(tags) == <<Metric("gauge", "redis.info.latency_ms", LatencyVal, tags)>>

\* A variant of lines 119-123 that submits the latency gauge whether or not
\* the info query succeeded.
InfoQuery_GaugeAlways(t, Snaps) ==
    /\ pc[t] = "info"
    /\ \E outcome \in InfoOutcomes, s \in Snaps :
         /\ emitted' = [emitted EXCEPT ![t] = latency_gauge(Tags(t))]
         /\ IF outcome = "ok"
            THEN /\ server_commands' = server_commands + 1
                 /\ info' = [info EXCEPT ![t] =
                       [s EXCEPT !.scalars =
                           IF s.has_total
                           THEN ("total_commands_processed" :> (server_commands + 1)) @@ @
                           ELSE @]]
                 /\ pc' = [pc EXCEPT ![t] = "extract"]
                 /\ UNCHANGED exc
            ELSE /\ Raise(t, Exc(outcome, "info"))
                 /\ UNCHANGED <<server_commands, info>>
    /\ UNCHANGED <<connections, previous_total_commands, constructed, inst, conn,
                   log, idx, count, llen_seen, prev_at_start, last_failed,
                   completed_base, touched, ninv, nbursts>>

\* Lines 119-123: the info query, counted by the server, and its latency.
InfoQuery(t, Snaps) ==
    /\ pc[t] = "info"
    /\ \E outcome \in InfoOutcomes, s \in Snaps :
         IF outcome = "ok"
         THEN /\ server_commands' = server_commands + 1
              /\ info' = [info EXCEPT ![t] =
                    [s EXCEPT !.scalars =
                        IF s.has_total
                        THEN ("total_commands_processed" :> (server_commands + 1)) @@ @
                        ELSE @]]
              /\ emitted' = [emitted EXCEPT ![t] = latency_gauge(Tags(t))]
              /\ pc' = [pc EXCEPT ![t] = "extract"]
              /\ UNCHANGED exc
         ELSE /\ Raise(t, Exc(outcome, "info"))
              /\ UNCHANGED <<server_commands, info, emitted>>
    /\ UNCHANGED <<connections, previous_total_commands, constructed, inst, conn,
                   log, idx, count, llen_seen, prev_at_start, last_failed,
                   completed_base, touched, ninv, nbursts>>

\* A variant of the extraction that stores the command baseline (line 176)
\* before it extracts.
Extract_BaselineFirst(t) ==
    /\ pc[t] = "extract"
    /\ LET r == extract(info[t], Tags(t), emitted[t], log[t]) IN
         /\ emitted' = [emitted EXCEPT ![t] = r.emitted]
         /\ log' = [log EXCEPT ![t] = r.log]
         /\ exc' = [exc EXCEPT ![t] = r.exc]
         /\ pc' = [pc EXCEPT ![t] =
                IF r.exc # NoExc THEN "raised"
                ELSE IF inst[t].list_lengths = <<>> THEN "delta" ELSE "llen"]
    /\ previous_total_commands' =
          IF "total_commands_processed" \in DOMAIN info[t].scalars
          THEN delta_store(previous_total_commands, Key(t),
                           total_commands(info[t].scalars))
          ELSE previous_total_commands
    /\ UNCHANGED <<connections, server_commands, constructed, completed_base,
                   touched, nbursts, inst, conn, info, idx, count, llen_seen,
                   prev_at_start, last_failed, ninv>>

\* Lines 126-159: per-database statistics, mapped gauges and rates, ratios.
Extract(t) ==
    /\ pc[t] = "extract"
    /\ LET r == extract(info[t], Tags(t), emitted[t], log[t]) IN
         /\ emitted' = [emitted EXCEPT ![t] = r.emitted]
         /\ log' = [log EXCEPT ![t] = r.log]
         /\ exc' = [exc EXCEPT ![t] = r.exc]
         /\ pc' = [pc EXCEPT ![t] =
                IF r.exc # NoExc THEN "raised"
                ELSE IF inst[t].list_lengths = <<>> THEN "delta" ELSE "llen"]
    /\ UNCHANGED <<shared, inst, conn, info, idx, count, llen_seen,
                   prev_at_start, last_failed, ninv>>

\* A variant of lines 165-168 without the except clause.
llen_step_uncaught(name, outcome, length, tags) ==
    [emit |-> IF outcome = "ok"
              THEN <<Metric("gauge", "redis.llen." \o name, IntVal(length), tags)>>
              ELSE <<>>,
     log |-> <<>>,
     exc |-> IF outcome = "ok" THEN NoExc ELSE Exc(outcome, "llen")]

\* Lines 165-168 for one name: the gauge on success, the log entry on a
\* ResponseError; any other exception is not caught.
llen_step(name, outcome, length, tags) ==
    [emit |-> IF outcome = "ok"
              THEN <<Metric("gauge", "redis.llen." \o name, IntVal(length), tags)>>
              ELSE <<>>,
     log |-> IF outcome = "ResponseError"
             THEN <<"error: Could not get length">> ELSE <<>>,
     exc |-> IF outcome \in {"ok", "ResponseError"}
             THEN NoExc ELSE Exc(outcome, "llen")]

\* Lines 163-168: one iteration of the loop over list_lengths.
Llen(t) ==
    /\ pc[t] = "llen"
    /\ \E outcome \in LlenOutcomes, length \in LlenLengths :
         LET r == llen_step(inst[t].list_lengths[idx[t]], outcome, length, Tags(t)) IN
         /\ emitted' = [emitted EXCEPT ![t] = @ \o r.emit]
         /\ log' = [log EXCEPT ![t] = @ \o r.log]
         /\ exc' = [exc EXCEPT ![t] = r.exc]
         /\ llen_seen' = [llen_seen EXCEPT ![t] = Append(@, outcome)]
         /\ idx' = [idx EXCEPT ![t] = @ + 1]
         /\ pc' = [pc EXCEPT ![t] =
                IF r.exc # NoExc THEN "raised"
                ELSE IF idx[t] = Len(inst[t].list_lengths) THEN "delta" ELSE "llen"]
    /\ UNCHANGED <<shared, inst, conn, info, count, prev_at_start, last_failed,
                   ninv>>

\* Lines 171-174: read the counter and the stored value, compute the delta.
DeltaRead(t) ==
    /\ pc[t] = "delta"
    /\ IF "total_commands_processed" \in DOMAIN info[t].scalars
       THEN /\ count' = [count EXCEPT ![t] =
                  delta_count(previous_total_commands, Key(t),
                              total_commands(info[t].scalars))]
            /\ pc' = [pc EXCEPT ![t] =
                  IF count'[t].has THEN "delta_emit" ELSE "delta_store"]
            /\ touched' = IF count'[t].has THEN Touch(t) ELSE touched
            /\ UNCHANGED exc
       ELSE /\ Raise(t, Exc("KeyError", "total_commands_processed"))
            /\ UNCHANGED <<count, touched>>
    /\ UNCHANGED <<connections, previous_total_commands, server_commands,
                   constructed, completed_base, nbursts, inst, conn, info,
                   emitted, log, idx, llen_seen, prev_at_start, last_failed,
                   ninv>>

\* Line 175.
commands_gauge(v, tags) == <<Metric("gauge", "redis.net.commands", IntVal(v), tags)>>

DeltaEmit(t) ==
    /\ pc[t] = "delta_emit"
    /\ emitted' = [emitted EXCEPT ![t] = @ \o commands_gauge(count[t].v, Tags(t))]
    /\ pc' = [pc EXCEPT ![t] = "delta_store"]
    /\ UNCHANGED <<shared, inst, conn, info, log, exc, idx, count, llen_seen,
                   prev_at_start, last_failed, ninv>>

\* Line 176, after which _check_db and check return.
DeltaStore(t) ==
    /\ pc[t] = "delta_store"
    /\ previous_total_commands' =
          delta_store(previous_total_commands, Key(t),
                      total_commands(info[t].scalars))
    /\ completed_base' =
          (Key(t) :> total_commands(info[t].scalars)) @@ completed_base
    /\ touched' = Touch(t)
    /\ pc' = [pc EXCEPT ![t] = "done"]
    /\ UNCHANGED <<connections, server_commands, constructed, nbursts, inst,
                   conn, info, emitted, log, exc, idx, count, llen_seen,
                   prev_at_start, last_failed, ninv>>

\* Other clients of the server run commands.
Traffic ==
    /\ nbursts < MaxBursts
    /\ nbursts' = nbursts + 1
    /\ server_commands' = server_commands + Burst
    /\ UNCHANGED <<connections, previous_total_commands, constructed, pc, inst,
                   conn, info, emitted, log, exc, idx, count, llen_seen,
                   prev_at_start, last_failed, completed_base, touched, ninv>>

Step(t, Insts, Snaps) ==
    \/ Check(t, Insts)
    \/ InfoQuery(t, Snaps)
    \/ Extract(t)
    \/ Llen(t)
    \/ DeltaRead(t)
    \/ DeltaEmit(t)
    \/ DeltaStore(t)

\* The scheduler runs one invocation at a time, for several configurations.
Next == Step(1, PollInstances, PollSnapshots) \/ Traffic
Spec == Init /\ [][Next]_vars

\* One invocation at a time, over the snapshots the extraction distinguishes.
NextExtract == Step(1, ExtractInstances, ExtractSnapshots) \/ Traffic
SpecExtract == Init /\ [][NextExtract]_vars

\* One invocation at a time, over the configurations _get_conn distinguishes.
NextConn == Step(1, ConnInstances, ConnSnapshots) \/ Traffic
SpecConn == Init /\ [][NextConn]_vars

\* The scheduler runs invocations on parallel threads.
NextRace == (\E t \in Threads : Step(t, RaceInstances, RaceSnapshots)) \/ Traffic
SpecRace == Init /\ [][NextRace]_vars

(***************************************************************************)
(* Properties.                                                             *)
(***************************************************************************)
Past(t, places) == pc[t] \in places

\* The invocation of thread t has run its command-delta step to the end.
Completed(t) == pc[t] = "done"

\* The value of the snapshot's counter field, less the info call itself.
Current(t) == info[t].scalars["total_commands_processed"] - 1

Commands(t) == Named(emitted[t], "redis.net.commands")

\* C1: with one invocation at a time, a completed invocation whose tags had
\* no stored value emits no redis.net.commands; one whose tags had a stored
\* value emits exactly one, valued its total_commands_processed - 1 minus
\* that stored value; either way it stores its total_commands_processed - 1.
C1_CommandDelta ==
    \A t \in Threads :
        Completed(t) =>
            /\ Key(t) \in DOMAIN previous_total_commands
            /\ previous_total_commands[Key(t)] = Current(t)
            /\ IF Key(t) \in DOMAIN prev_at_start[t]
               THEN /\ Len(Commands(t)) = 1
                    /\ Commands(t)[1] =
                         Metric("gauge", "redis.net.commands",
                                IntVal(Current(t) - prev_at_start[t][Key(t)]),
                                Tags(t))
               ELSE Commands(t) = <<>>

\* A second invocation whose counter is baseline + 50 + 1 has emitted 50.
C1_Witness ==
    /\ Completed(1)
    /\ Key(1) \in DOMAIN prev_at_start[1]
    /\ info[1].scalars["total_commands_processed"]
         = prev_at_start[1][Key(1)] + 50 + 1
    /\ Len(Commands(1)) = 1
    /\ Commands(1)[1].value = IntVal(50)

\* C2: two invocations for the same tags that both started from the same
\* stored baseline (so neither had stored when the other began) emit deltas
\* whose sum is at most the counter's true increase over both, and the
\* baseline they leave is that of the later snapshot.
C2_NoDoubleCounting ==
    ( /\ Completed(1) /\ Completed(2)
      /\ Key(1) = Key(2)
      /\ prev_at_start[1] = prev_at_start[2]
      /\ Key(1) \in DOMAIN prev_at_start[1]
      /\ Len(Commands(1)) = 1 /\ Len(Commands(2)) = 1 )
    => LET base == prev_at_start[1][Key(1)]
           last == IF Current(1) >= Current(2) THEN Current(1) ELSE Current(2)
       IN /\ Commands(1)[1].value.int + Commands(2)[1].value.int <= last - base
          /\ previous_total_commands[Key(1)] = last

\* The extraction of thread t has acted on a snapshot.
Extracted(t) ==
    \/ Past(t, {"llen", "delta", "delta_emit", "delta_store", "done"})
    \/ pc[t] = "raised" /\ exc[t].at \notin {"_get_conn", "info"}

HasHitFields(t) == {"keyspace_hits", "keyspace_misses"} \subseteq DOMAIN info[t].scalars

HitRatio(t) == Named(emitted[t], "redis.hit_ratio")

\* v is the hundredths of round(100 * a / b, 2).
IsRound2(v, a, b) == 2 * (v * b - 10000 * a) <= b /\ 2 * (10000 * a - v * b) <= b

\* C3: once _check_db has extracted a snapshot that contains keyspace_hits
\* and keyspace_misses, it has emitted redis.hit_ratio exactly when both are
\* nonzero, valued round(100 * hits / misses, 2), and has not raised in the
\* extraction.
C3_HitRatio ==
    \A t \in Threads :
        (Extracted(t) /\ HasHitFields(t)) =>
            LET h == info[t].scalars["keyspace_hits"]
                m == info[t].scalars["keyspace_misses"]
            IN /\ exc[t].at \notin {"expires_ratio", "ratios"}
               /\ IF h # 0 /\ m # 0
                  THEN /\ Len(HitRatio(t)) = 1
                       /\ HitRatio(t)[1].tags = Tags(t)
                       /\ IsRound2(HitRatio(t)[1].value.hundredths, h, m)
                  ELSE HitRatio(t) = <<>>

\* The per-database entries of thread t's snapshot.
DbsOf(t) == {info[t].dbs[i] : i \in DOMAIN info[t].dbs}

ExpiresRatio(t, name) ==
    SelectSeq(emitted[t],
              LAMBDA m : m.name = "redis.expires_ratio"
                         /\ m.tags = db_tags(Tags(t), name))

MappedEmitted(t) ==
    /\ Named(emitted[t], "redis.mem.used") # <<>>
    /\ Named(emitted[t], "redis.cpu.sys") # <<>>

\* C4: for a per-database entry whose keys count is 0, the extraction emits
\* no redis.expires_ratio for that database, raises nothing, and goes on to
\* emit the mapped gauges and rates.
C4_ZeroKeysSkipped ==
    \A t \in Threads :
        \A d \in DbsOf(t) :
            ( /\ Extracted(t)
              /\ d.entry.form = "dict"
              /\ "keys" \in DOMAIN d.entry.d
              /\ "expires" \in DOMAIN d.entry.d
              /\ d.entry.d["keys"] = 0 )
            => /\ ExpiresRatio(t, d.name) = <<>>
               /\ exc[t].at # "expires_ratio"
               /\ MappedEmitted(t)

LlenGauges(t, name) == Named(emitted[t], "redis.llen." \o name)

Count(seq, x) == Len(SelectSeq(seq, LAMBDA y : y = x))

\* The metrics of thread t other than list lengths and the command delta.
ExtractedPart(t) ==
    SelectSeq(emitted[t],
              LAMBDA m : /\ m.name # "redis.net.commands"
                         /\ \A i \in DOMAIN inst[t].list_lengths :
                               m.name # "redis.llen." \o inst[t].list_lengths[i])

\* Every llen query made so far answered or failed with a ResponseError.
OnlyResponseErrors(t) ==
    \A i \in DOMAIN llen_seen[t] : llen_seen[t][i] \in {"ok", "ResponseError"}

\* C5: a name whose llen query failed with a ResponseError has no
\* redis.llen.<name> gauge and one logged error; the failure does not end
\* the invocation: the loop goes on to the next name (names that answer have
\* their gauge), what was emitted before stays, and unless a later step
\* raises, the command-delta step runs and stores the baseline.
C5_ResponseErrorSkipped ==
    \A t \in Threads :
        ("ResponseError" \in ToSet(llen_seen[t])) =>
            LET names == inst[t].list_lengths
                seen == llen_seen[t]
            IN /\ \A j \in DOMAIN seen :
                     /\ seen[j] = "ResponseError" => LlenGauges(t, names[j]) = <<>>
                     /\ seen[j] = "ok" => Len(LlenGauges(t, names[j])) = 1
               /\ Count(log[t], "error: Could not get length")
                     = Count(seen, "ResponseError")
               /\ ExtractedPart(t)
                     = extract(info[t], Tags(t), latency_gauge(Tags(t)), <<>>).emitted
               /\ (pc[t] = "raised" /\ exc[t].at = "llen")
                     => seen[Len(seen)] = "ConnectionError"
               /\ OnlyResponseErrors(t) =>
                     /\ pc[t] = "llen" => idx[t] = Len(seen) + 1 /\ idx[t] <= Len(names)
                     /\ pc[t] # "llen" => Len(seen) = Len(names)
                     /\ pc[t] = "raised" => exc[t].at = "total_commands_processed"
                     /\ Completed(t) =>
                           /\ Key(t) \in DOMAIN previous_total_commands
                           /\ previous_total_commands[Key(t)] = Current(t)

\* A completed invocation whose first llen query failed and whose second
\* answered.
C5_Witness ==
    /\ Completed(1)
    /\ inst[1].list_lengths = <<"q1", "q2">>
    /\ llen_seen[1] = <<"ResponseError", "ok">>
    /\ LlenGauges(1, "q1") = <<>>
    /\ Len(LlenGauges(1, "q2")) = 1
    /\ previous_total_commands[Key(1)] = Current(1)

\* C6 as stated: an invocation that ended by raising has submitted nothing
\* to the sink and has not changed previous_total_commands.
C6_AllOrNothing ==
    \A t \in Threads :
        pc[t] = "raised" =>
            /\ emitted[t] = <<>>
            /\ previous_total_commands = prev_at_start[t]

\* C6 as amended: with one invocation at a time, an invocation changes
\* previous_total_commands only by completing; one that raised in the
\* connection construction or the info query has submitted nothing; one that
\* raised later has submitted redis.info.latency_ms first and what preceded
\* the failure.
C6_BaselineOnlyOnCompletion ==
    \A t \in Threads :
        /\ pc[t] \notin {"idle", "done"} => previous_total_commands = prev_at_start[t]
        /\ pc[t] = "raised" =>
              IF exc[t].at \in {"_get_conn", "info"}
              THEN emitted[t] = <<>>
              ELSE /\ emitted[t] # <<>>
                   /\ emitted[t][1].name = "redis.info.latency_ms"
                   /\ Commands(t) = <<>>

\* An invocation that raised in an llen query after submitting metrics,
\* with a baseline stored by an earlier invocation left as it was.
C6_Witness ==
    /\ pc[1] = "raised"
    /\ exc[1].at = "llen"
    /\ Len(emitted[1]) > 1
    /\ Key(1) \in DOMAIN previous_total_commands
    /\ previous_total_commands = prev_at_start[1]

\* The thread whose call of check this step is.
Called(t) ==
    /\ ninv' = ninv + 1
    /\ pc[t] \in {"idle", "done", "raised"}
    /\ pc'[t] \in {"info", "raised"}
    /\ \A u \in Threads \ {t} : pc[u] = "idle"

C7_Step ==
    IF ninv' = ninv
    THEN connections' = connections /\ constructed' = constructed
    ELSE \A t \in Threads :
           Called(t) =>
             LET i == inst'[t]
                 key == <<i.host, i.port, i.db>>
             IN IF key \in DOMAIN connections
                THEN /\ connections' = connections
                     /\ constructed' = constructed
                     /\ pc'[t] = "info"
                     /\ conn'[t] = connections[key]
                ELSE IF pc'[t] = "raised"
                THEN /\ connections' = connections
                     /\ constructed' = constructed
                     /\ exc'[t].at = "_get_conn"
                ELSE /\ DOMAIN connections' = DOMAIN connections \cup {key}
                     /\ \A k \in DOMAIN connections : connections'[k] = connections[k]
                     /\ constructed' = constructed + 1
                     /\ conn'[t] = connections'[key]
                     /\ <<conn'[t].host, conn'[t].port, conn'[t].db>> = key
                     /\ conn'[t].auth = (i.password \notin {"None", ""})
                     /\ \A k \in DOMAIN connections : connections[k].id # conn'[t].id

\* C7: a call of _get_conn for a cached identity returns the cached handle
\* and constructs nothing, whatever the password; for an identity not cached
\* it constructs one connection, authenticated iff the password is non-None
\* and non-empty, and caches it under (host, port, db), or, if construction
\* fails, leaves the cache as it was; no other step changes the cache, so
\* entries are never removed or replaced.
C7_ConnectionCache == [][C7_Step]_vars

\* A call that passed a password got the cached, unauthenticated handle that
\* an earlier call without a password had built.
C7_Witness ==
    /\ pc[1] = "info"
    /\ ninv = 3
    /\ constructed = 1
    /\ inst[1].password = "pw"
    /\ conn[1] = connections[Ident(1)]
    /\ ~conn[1].auth

\* C8: an entry of previous_total_commands is read or written by invocations
\* of one connection identity (host, port, db) only.
C8_KeyIdentifiesDatabase ==
    \A k \in DOMAIN touched : Cardinality(touched[k]) <= 1

KeysExpires == <<"keys", "=", "3", ",", "expires", "=", "0">>

SubkeyGauges(t, name, subkey) ==
    SelectSeq(emitted[t],
              LAMBDA m : m.name = "redis." \o subkey
                         /\ m.tags = db_tags(Tags(t), name))

\* C9: for a per-database entry that is the flat string "keys=3,expires=0",
\* the extraction emits redis.keys = 3 and redis.expires = 0 tagged with the
\* database, emits redis.expires_ratio (keys is nonzero), and does not
\* raise; for a string with no '=' it emits -1 for both and does not raise.
C9_LegacyString ==
    \A t \in Threads :
        \A d \in DbsOf(t) :
            (Extracted(t) /\ d.entry.form = "str") =>
                /\ exc[t].at # "expires_ratio"
                /\ d.entry.s = KeysExpires =>
                      /\ SubkeyGauges(t, d.name, "keys")[1].value = IntVal(3)
                      /\ SubkeyGauges(t, d.name, "expires")[1].value = IntVal(0)
                      /\ Len(ExpiresRatio(t, d.name)) = 1
                /\ d.entry.s = <<"junk">> =>
                      /\ SubkeyGauges(t, d.name, "keys")[1].value = IntVal(-1)
                      /\ SubkeyGauges(t, d.name, "expires")[1].value = IntVal(-1)
                      /\ ExpiresRatio(t, d.name) = <<>>

Latency(t) == Named(emitted[t], "redis.info.latency_ms")

\* C10: with one invocation at a time, an invocation whose info query failed
\* has submitted nothing and left previous_total_commands as it was; the
\* stored baselines are always those of the last completed invocations, so
\* the completed invocation that follows a failed one emits its delta against
\* them; and whatever an invocation has submitted starts with its one
\* redis.info.latency_ms.
C10_InfoFailure ==
    /\ previous_total_commands = completed_base
    /\ \A t \in Threads :
          /\ (pc[t] = "raised" /\ exc[t].at = "info") =>
                /\ emitted[t] = <<>>
                /\ previous_total_commands = prev_at_start[t]
          /\ emitted[t] # <<>> =>
                /\ emitted[t][1].name = "redis.info.latency_ms"
                /\ Len(Latency(t)) = 1
          /\ Completed(t) => Len(Latency(t)) = 1
          /\ (Completed(t) /\ last_failed[t] /\ Key(t) \in DOMAIN prev_at_start[t]) =>
                /\ Len(Commands(t)) = 1
                /\ Commands(t)[1].value
                      = IntVal(Current(t) - prev_at_start[t][Key(t)])

\* A completed invocation, after one for the same tags whose info query
\* failed, after one that stored a baseline; its delta spans both.
C10_Witness ==
    /\ Completed(1)
    /\ last_failed[1]
    /\ ninv = 3
    /\ Key(1) \in DOMAIN prev_at_start[1]
    /\ Len(Commands(1)) = 1
    /\ Commands(1)[1].value = IntVal(Current(1) - prev_at_start[1][Key(1)])
    /\ emitted[1][1].name = "redis.info.latency_ms"

====
